---- MODULE Spec2Model ----
(***************************************************************************)
(* The PDF viewer of pdf-edit-print as a state machine.                    *)
(*                                                                         *)
(* The state is the React state and refs of the PDFViewer component        *)
(* (src/src/components/PDFViewer.tsx), the file prop it receives from the  *)
(* Index page (src/src/pages/Index.tsx) and the load state of the          *)
(* react-pdf <Document> it renders.  Every handler of the component is one *)
(* action; React runs each handler to completion and commits all of its    *)
(* set-state calls together, so one handler is one atomic step.  What a    *)
(* handler leaves to a later task (the 500 ms timer of the canvas lookup,  *)
(* the onload of the Image that handleDownloadCropped creates) is an       *)
(* action of its own, which other handlers may precede.                    *)
(*                                                                         *)
(* The zoom factor is kept in hundredths (scale = 100 is the factor 1.0),  *)
(* so that the steps of 0.25 are the integer 25.  All zoom factors the     *)
(* code can produce are multiples of 0.25, which binary floating point     *)
(* represents exactly, so the integer arithmetic is the code's arithmetic. *)
(***************************************************************************)
EXTENDS Integers, FiniteSets, Sequences, TLC

VARIABLES
    file,                 \* Index.selectedFile, the file prop of the viewer
    loadState,            \* load state of <Document file={file}>
    passwordRequests,     \* onPassword calls <Document> has made for this file
    numPages,             \* useState<number>(0)
    currentPage,          \* useState(1)
    scale,                \* useState(1), in hundredths
    isCropMode,           \* useState(false)
    cropArea,             \* useState<CropArea | null>(null)
    isDrawing,            \* useState(false)
    startPos,             \* useState({ x: 0, y: 0 })
    showPasswordModal,    \* useState(false)
    passwordError,        \* useState<string>("")
    passwordCallbackRef,  \* useRef(null): the resolver handed over by onPassword
    canvasRef,            \* useRef(null): the canvas element remembered for extraction
    domCanvas,            \* whether <Page> has a rendered canvas inside pageRef
    timerArmed,           \* the 500 ms timer of the canvas-lookup effect is pending
    showPreview,          \* Index: useState(false)
    previewImage,         \* Index: useState<string>("")
    loadingImages,        \* the Images of handleDownloadCropped whose onload is still to run
    emitted               \* the call the last handler made to a collaborator

viewVars == <<numPages, currentPage, scale, isCropMode, cropArea, isDrawing, startPos>>
gateVars == <<showPasswordModal, passwordError, passwordCallbackRef>>
canvasVars == <<canvasRef, domCanvas, timerArmed>>
indexVars == <<showPreview, previewImage>>

vars == <<file, loadState, passwordRequests, viewVars, gateVars, canvasVars, indexVars,
          loadingImages, emitted>>

(***************************************************************************)
(* Bounds of the model and constants of the program.                       *)
(***************************************************************************)
MaxPages == 2
\* Most password requests <Document> makes for one file.
MaxRequests == 3
\* Most Images of handleDownloadCropped that are loading at one time.
MaxLoading == 1

ScaleInit == 100
ZoomStep == 25
ZoomMax == 300
ZoomMin == 50
MinCropSize == 10
PageMinCropSize == 10

\* JavaScript's null, for the nullable state and for "no call".
NULL == [null |-> TRUE]

Min(a, b) == IF a <= b THEN a ELSE b
Max(a, b) == IF a >= b THEN a ELSE b
Abs(a) == IF a >= 0 THEN a ELSE 0 - a

\* The files a user can hand to the viewer: a page count, and whether the
\* document is protected by a password.
Files == [pages : 1..MaxPages, locked : BOOLEAN]

\* Pointer positions relative to the page container (e.clientX - rect.left,
\* e.clientY - rect.top).
Points == {[x |-> 10, y |-> 10], [x |-> 50, y |-> 50]}
FinePoints == Points \cup {[x |-> 21, y |-> 21], [x |-> 21, y |-> 20], [x |-> 20, y |-> 21]}

\* The initial previewImage "", as a record like the images that replace it.
EmptyImage == [empty |-> TRUE]

ErrIncorrect == "Incorrect password. Please try again."

\* What getBoundingClientRect() and the canvas report when an extraction
\* runs: the page container's and the canvas's on-screen position, the
\* canvas's displayed size and its native size.
Geometry(pl, pt, cl, ct, rw, rh, w, h) ==
    [pageLeft |-> pl, pageTop |-> pt, canvasLeft |-> cl, canvasTop |-> ct,
     rectWidth |-> rw, rectHeight |-> rh, width |-> w, height |-> h]

\* A canvas of 100 x 100 pixels displayed 50 x 50, 4 pixels inside the page
\* container.
Geoms == {Geometry(8, 8, 12, 12, 50, 50, 100, 100)}

\* The canvas of a page that <Page> has discarded, which a handle not yet
\* renewed still holds: being out of the document, it reports a rectangle
\* of zeros.  Whether the library leaves its 100 x 100 pixels or empties it
\* to 0 x 0 is for the library to decide, so both occur.
DetachedGeoms ==
    {Geometry(8, 8, 0, 0, 0, 0, 100, 100),
     Geometry(8, 8, 0, 0, 0, 0, 0, 0)}

\* Further geometries for the mapping.  The canvas fills the page container
\* (<Document> and <Page> are the container's only content in the normal
\* flow, PDFViewer.tsx:378-403), except in the one that shows the offset at
\* identity scale; no pointer position lies left of or above a canvas:
\*   100 x 100 displayed 100 x 100, identity scale;
\*   60 x 60 displayed 60 x 60, at offset (5,3) inside the container;
\*   15 x 15 displayed 11 x 11, a scale factor no double represents exactly;
\*   60 x 60 displayed 30 x 30, which selections run past on the right and
\*     at the bottom;
\*   10 x 10 displayed 10 x 10, on whose right and bottom edge selections
\*     start;
\*   10 x 200 displayed 5 x 100, which every selection lies to the right of;
\*   11 x 11 displayed 22 x 22, half a pixel per display pixel;
\*   51 x 51 displayed 21 x 21, an inexact scale factor with selections
\*     that start on the right and bottom edge.
\* A canvas is displayed smaller than a selection reaches after a zoom out,
\* which keeps the selection (zoomOut, PDFViewer.tsx:97).
MapGeoms ==
    Geoms \cup
        {Geometry(0, 0, 0, 0, 100, 100, 100, 100),
         Geometry(8, 8, 13, 11, 60, 60, 60, 60),
         Geometry(0, 0, 0, 0, 11, 11, 15, 15),
         Geometry(0, 0, 0, 0, 30, 30, 60, 60),
         Geometry(0, 0, 0, 0, 10, 10, 10, 10),
         Geometry(0, 0, 0, 0, 5, 100, 10, 200),
         Geometry(0, 0, 0, 0, 22, 22, 11, 11),
         Geometry(0, 0, 0, 0, 21, 21, 51, 51)}

(***************************************************************************)
(* Initial state: the Index page has mounted the viewer with a first file  *)
(* (Index.tsx:163-165); every useState and useRef holds its initial value  *)
(* and the canvas-lookup effect has armed its timer.                       *)
(***************************************************************************)
Init ==
    /\ file \in Files
    /\ loadState = "loading"
    /\ passwordRequests = 0
    /\ numPages = 0
    /\ currentPage = 1
    /\ scale = ScaleInit
    /\ isCropMode = FALSE
    /\ cropArea = NULL
    /\ isDrawing = FALSE
    /\ startPos = [x |-> 0, y |-> 0]
    /\ showPasswordModal = FALSE
    /\ passwordError = ""
    /\ passwordCallbackRef = NULL
    /\ canvasRef = "null"
    /\ domCanvas = FALSE
    /\ timerArmed = TRUE
    /\ showPreview = FALSE
    /\ previewImage = EmptyImage
    /\ loadingImages = <<>>
    /\ emitted = NULL

(***************************************************************************)
(* The canvas-lookup effect, useEffect(..., [currentPage, scale, file]).   *)
(* When a handler changes one of the three dependencies, <Page> discards   *)
(* the canvas it had rendered and starts rendering a new one, the pending  *)
(* timer is cleared and a new one is armed.  canvasRef keeps the element   *)
(* it held: "current" is the canvas now inside pageRef, "stale" one that   *)
(* has since been discarded, "null" no element.                            *)
(***************************************************************************)
\* The effect's cleanup and body after a dependency has changed:
\* clearTimeout(timer), setTimeout(checkForCanvas, 500).
RearmCanvasLookup ==
    /\ timerArmed' = TRUE
    /\ domCanvas' = FALSE
    /\ canvasRef' = IF canvasRef = "null" THEN "null" ELSE "stale"

\* The effect after a handler of the viewer: it runs when the handler has
\* changed currentPage or scale.  (The file is changed by FileSelected
\* alone, which always hands over another File object.)
ViewEffect ==
    IF <<currentPage', scale', file'>> # <<currentPage, scale, file>>
      THEN RearmCanvasLookup
      ELSE UNCHANGED canvasVars

\* checkForCanvas, run by the timer 500 ms after the last dependency change.
CheckForCanvas ==
    /\ timerArmed
    /\ timerArmed' = FALSE
    /\ canvasRef' = IF domCanvas THEN "current" ELSE canvasRef
    /\ emitted' = NULL
    /\ UNCHANGED <<file, loadState, passwordRequests, viewVars, gateVars, domCanvas, indexVars, loadingImages>>

\* <Page pageNumber={currentPage} scale={scale}> finishes rendering its
\* canvas; it renders only inside a loaded document and for a page the
\* document has.
PageRendered ==
    /\ loadState = "loaded"
    /\ currentPage <= numPages
    /\ ~domCanvas
    /\ domCanvas' = TRUE
    /\ emitted' = NULL
    /\ UNCHANGED <<file, loadState, passwordRequests, viewVars, gateVars, canvasRef, timerArmed, indexVars, loadingImages>>

(***************************************************************************)
(* Document lifecycle.                                                     *)
(***************************************************************************)
\* The timeout callback of Index.handleFileSelect hands a new file to the
\* mounted viewer: setSelectedFile(file).  <PDFViewer> has no key, so the
\* component instance and all of its state survive; <Document> starts
\* loading the new file.  f is another File object than the one displayed,
\* also when it has the same page count and protection (selecting the very
\* same object again is no change of state, a stuttering step), so the
\* effect of line 101 always runs.  passwordCallbackRef keeps the callback
\* it holds; from now on that callback belongs to a file that has been
\* replaced, which is what its doc field records.
FileSelected(f) ==
    /\ file' = f
    /\ loadState' = "loading"
    /\ passwordRequests' = 0
    /\ passwordCallbackRef' =
           IF passwordCallbackRef = NULL
             THEN NULL
             ELSE [passwordCallbackRef EXCEPT !.doc = "replaced"]
    /\ emitted' = NULL
    /\ UNCHANGED <<viewVars, showPasswordModal, passwordError, indexVars, loadingImages>>
    /\ RearmCanvasLookup

\* onDocumentLoadSuccess({ numPages }), called by <Document> when the file
\* has been opened: at once for an unprotected file, after an accepted
\* password for a protected one.
OnDocumentLoadSuccess ==
    /\ \/ loadState = "loading" /\ ~file.locked
       \/ loadState = "verifying:right"
    /\ loadState' = "loaded"
    /\ numPages' = file.pages
    /\ showPasswordModal' = FALSE
    /\ passwordError' = ""
    /\ passwordCallbackRef' = NULL
    /\ emitted' = NULL
    /\ UNCHANGED <<file, passwordRequests, currentPage, scale, isCropMode, cropArea,
                   isDrawing, startPos, canvasVars, indexVars, loadingImages>>

(***************************************************************************)
(* Page navigation and zoom.                                               *)
(***************************************************************************)
\* nextPage with the selection left in place.
NextPageKeepsSelection ==
    /\ IF currentPage < numPages
         THEN currentPage' = currentPage + 1
         ELSE UNCHANGED currentPage
    /\ emitted' = NULL
    /\ UNCHANGED <<file, loadState, passwordRequests, numPages, scale, isCropMode, cropArea, isDrawing,
                   startPos, gateVars, indexVars, loadingImages>>
    /\ ViewEffect

NextPage ==
    /\ IF currentPage < numPages
         THEN /\ currentPage' = currentPage + 1
              /\ cropArea' = NULL
         ELSE UNCHANGED <<currentPage, cropArea>>
    /\ emitted' = NULL
    /\ UNCHANGED <<file, loadState, passwordRequests, numPages, scale, isCropMode, isDrawing,
                   startPos, gateVars, indexVars, loadingImages>>
    /\ ViewEffect

\* prevPage with the lower limit off by one.
PrevPageOffByOne ==
    /\ IF currentPage >= 1
         THEN /\ currentPage' = currentPage - 1
              /\ cropArea' = NULL
         ELSE UNCHANGED <<currentPage, cropArea>>
    /\ emitted' = NULL
    /\ UNCHANGED <<file, loadState, passwordRequests, numPages, scale, isCropMode, isDrawing,
                   startPos, gateVars, indexVars, loadingImages>>
    /\ ViewEffect

PrevPage ==
    /\ IF currentPage > 1
         THEN /\ currentPage' = currentPage - 1
              /\ cropArea' = NULL
         ELSE UNCHANGED <<currentPage, cropArea>>
    /\ emitted' = NULL
    /\ UNCHANGED <<file, loadState, passwordRequests, numPages, scale, isCropMode, isDrawing,
                   startPos, gateVars, indexVars, loadingImages>>
    /\ ViewEffect

\* zoomIn without the upper clamp.
ZoomInUnclamped ==
    /\ scale' = scale + ZoomStep
    /\ emitted' = NULL
    /\ UNCHANGED <<file, loadState, passwordRequests, numPages, currentPage, isCropMode, cropArea,
                   isDrawing, startPos, gateVars, indexVars, loadingImages>>
    /\ ViewEffect

ZoomIn ==
    /\ scale' = Min(scale + ZoomStep, ZoomMax)
    /\ emitted' = NULL
    /\ UNCHANGED <<file, loadState, passwordRequests, numPages, currentPage, isCropMode, cropArea,
                   isDrawing, startPos, gateVars, indexVars, loadingImages>>
    /\ ViewEffect

ZoomOut ==
    /\ scale' = Max(scale - ZoomStep, ZoomMin)
    /\ emitted' = NULL
    /\ UNCHANGED <<file, loadState, passwordRequests, numPages, currentPage, isCropMode, cropArea,
                   isDrawing, startPos, gateVars, indexVars, loadingImages>>
    /\ ViewEffect

ResetZoom ==
    /\ scale' = ScaleInit
    /\ emitted' = NULL
    /\ UNCHANGED <<file, loadState, passwordRequests, numPages, currentPage, isCropMode, cropArea,
                   isDrawing, startPos, gateVars, indexVars, loadingImages>>
    /\ ViewEffect

(***************************************************************************)
(* Selection: pointer handlers of the page container and the toolbar.      *)
(***************************************************************************)
\* The rectangle without Math.abs: signed extents.
DragRectSigned(anchor, p) ==
    [x |-> Min(anchor.x, p.x),
     y |-> Min(anchor.y, p.y),
     width |-> p.x - anchor.x,
     height |-> p.y - anchor.y]

\* The rectangle handleMouseMove computes from the anchor and the pointer.
DragRect(anchor, p) ==
    [x |-> Min(anchor.x, p.x),
     y |-> Min(anchor.y, p.y),
     width |-> Abs(p.x - anchor.x),
     height |-> Abs(p.y - anchor.y)]

\* handleMouseDown without the test of isCropMode.
HandleMouseDownAnyMode(p) ==
    /\ isDrawing' = TRUE
    /\ startPos' = p
    /\ cropArea' = [x |-> p.x, y |-> p.y, width |-> 0, height |-> 0]
    /\ emitted' = NULL
    /\ UNCHANGED <<file, loadState, passwordRequests, numPages, currentPage, scale, isCropMode,
                   gateVars, canvasVars, indexVars, loadingImages>>

\* handleMouseDown: a drag starts at the pointer's position, in crop mode only.
HandleMouseDown(p) ==
    /\ IF isCropMode
         THEN /\ isDrawing' = TRUE
              /\ startPos' = p
              /\ cropArea' = [x |-> p.x, y |-> p.y, width |-> 0, height |-> 0]
         ELSE UNCHANGED <<isDrawing, startPos, cropArea>>
    /\ emitted' = NULL
    /\ UNCHANGED <<file, loadState, passwordRequests, numPages, currentPage, scale, isCropMode,
                   gateVars, canvasVars, indexVars, loadingImages>>

HandleMouseMove(p) ==
    /\ IF isDrawing
         THEN cropArea' = DragRect(startPos, p)
         ELSE UNCHANGED cropArea
    /\ emitted' = NULL
    /\ UNCHANGED <<file, loadState, passwordRequests, numPages, currentPage, scale, isCropMode,
                   isDrawing, startPos, gateVars, canvasVars, indexVars, loadingImages>>

\* onMouseUp and onMouseLeave of the page container.
HandleMouseUp ==
    /\ isDrawing' = FALSE
    /\ emitted' = NULL
    /\ UNCHANGED <<file, loadState, passwordRequests, numPages, currentPage, scale, isCropMode,
                   cropArea, startPos, gateVars, canvasVars, indexVars, loadingImages>>

\* onClick of the crop-mode button: setIsCropMode(!isCropMode).
ToggleCropMode ==
    /\ isCropMode' = ~isCropMode
    /\ emitted' = NULL
    /\ UNCHANGED <<file, loadState, passwordRequests, numPages, currentPage, scale, cropArea,
                   isDrawing, startPos, gateVars, canvasVars, indexVars, loadingImages>>

ClearCrop ==
    /\ cropArea' = NULL
    /\ isCropMode' = FALSE
    /\ emitted' = NULL
    /\ UNCHANGED <<file, loadState, passwordRequests, numPages, currentPage, scale, isDrawing,
                   startPos, gateVars, canvasVars, indexVars, loadingImages>>

(***************************************************************************)
(* The tests that tell a selection from no selection.                      *)
(***************************************************************************)
\* The print test with >= in place of >.
SignificantInclusive(c) ==
    c # NULL /\ c.width >= MinCropSize /\ c.height >= MinCropSize

\* handlePrint: cropArea && cropArea.width > 10 && cropArea.height > 10
Significant(c) ==
    c # NULL /\ c.width > MinCropSize /\ c.height > MinCropSize

\* handleDownloadCropped: !cropArea || width <= 10 || height <= 10 returns
DownloadRejects(c) ==
    c = NULL \/ c.width <= MinCropSize \/ c.height <= MinCropSize

\* toolbar: the clear and cropped-download buttons are rendered
ControlsVisible(c) ==
    c # NULL /\ c.width > MinCropSize /\ c.height > MinCropSize

\* toolbar: the print button reads "Print Selection" rather than "Print Page"
PrintLabelSelection(c) ==
    c # NULL /\ c.width > MinCropSize

\* arg[field] < 10 in JavaScript; a string has no width or height, and
\* undefined < 10 is false.
JsBelowMin(arg, field) ==
    field \in DOMAIN arg /\ arg[field] < PageMinCropSize

\* Index.handlePrint: !cropArea || cropArea.width < 10 || cropArea.height < 10
\* prints the whole page.
PagePrintsWholePage(arg) ==
    arg = NULL \/ JsBelowMin(arg, "width") \/ JsBelowMin(arg, "height")

(***************************************************************************)
(* JavaScript numbers.  extractCroppedImage computes with IEEE 754 doubles *)
(* (round to nearest, ties to even).  A finite value that is not negative  *)
(* is kept exactly, as a count of units of 2^-60 in four limbs of 20 bits, *)
(* the first limb being its integer part; a double of this computation is *)
(* such a count with at most 53 significant bits.  A negative value is     *)
(* only ever clamped to 0 or tested against 0, so its magnitude is not     *)
(* kept.  The operands are limited to sizes below 1024 pixels and scale    *)
(* factors of at least 1/128.                                              *)
(***************************************************************************)
LimbBase == 1048576

RECURSIVE Pow2(_)
Pow2(k) == IF k = 0 THEN 1 ELSE 2 * Pow2(k - 1)

RECURSIVE BitLength(_)
BitLength(n) == IF n = 0 THEN 0 ELSE 1 + BitLength(n \div 2)

\* Limbs brought back into 0 .. LimbBase - 1 after a limb-wise operation.
Carry(a) ==
    LET t0 == a[4]
        t1 == a[3] + (t0 \div LimbBase)
        t2 == a[2] + (t1 \div LimbBase)
        t3 == a[1] + (t2 \div LimbBase)
    IN  <<t3, t2 % LimbBase, t1 % LimbBase, t0 % LimbBase>>

MantissaLength(m) ==
    IF m[1] > 0 THEN 60 + BitLength(m[1])
    ELSE IF m[2] > 0 THEN 40 + BitLength(m[2])
    ELSE IF m[3] > 0 THEN 20 + BitLength(m[3])
    ELSE BitLength(m[4])

\* 1 when the bits rounded off round up: low is their value, half is one
\* half of the unit they are rounded to, and a tie goes up when tieUp holds.
RoundUp(low, half, tieUp) == IF low > half \/ (low = half /\ tieUp) THEN 1 ELSE 0

\* m rounded to a multiple of unit, a power of 2 of at most LimbBase units
\* of the last limb; a tie goes to the even multiple unless sticky holds.
RoundLastLimb(m, sticky, unit) ==
    Carry(<<m[1], m[2], m[3],
            m[4] - (m[4] % unit)
              + unit * RoundUp(m[4] % unit, unit \div 2,
                               sticky \/ (IF unit = LimbBase
                                            THEN m[3] % 2 = 1
                                            ELSE (m[4] \div unit) % 2 = 1))>>)

\* m rounded to a multiple of unit, a power of 2 of units of the third limb.
RoundThirdLimb(m, sticky, unit) ==
    Carry(<<m[1], m[2],
            m[3] - (m[3] % unit)
              + unit * RoundUp((m[3] % unit) * LimbBase + m[4], (unit \div 2) * LimbBase,
                               sticky \/ (m[3] \div unit) % 2 = 1),
            0>>)

\* m with its drop lowest bits rounded off.
RoundBits(m, sticky, drop) ==
    IF drop <= 0 THEN m
    ELSE IF drop <= 20 THEN RoundLastLimb(m, sticky, Pow2(drop))
    ELSE RoundThirdLimb(m, sticky, Pow2(drop - 20))

\* The double nearest to the exact value m (plus a fraction of a unit when
\* sticky holds): the bits below the 53rd are rounded off, ties to even.
RoundToDouble(m, sticky) == RoundBits(m, sticky, MantissaLength(m) - 53)

Fin(m) == [kind |-> "fin", m |-> m]
Zero == Fin(<<0, 0, 0, 0>>)
Negative == [kind |-> "neg"]
Infinity == [kind |-> "inf"]
NaN == [kind |-> "nan"]

\* m < k for two exact values.
Less(m, k) ==
    \/ m[1] < k[1]
    \/ m[1] = k[1] /\ m[2] < k[2]
    \/ m[1] = k[1] /\ m[2] = k[2] /\ m[3] < k[3]
    \/ m[1] = k[1] /\ m[2] = k[2] /\ m[3] = k[3] /\ m[4] < k[4]

\* a / b for integers a >= 0 and b >= 0: canvas.width / canvasRect.width.
NumDivide(a, b) ==
    IF b = 0
      THEN IF a = 0 THEN NaN ELSE Infinity
      ELSE LET q3 == a \div b
               r3 == a % b
               q2 == (r3 * LimbBase) \div b
               r2 == (r3 * LimbBase) % b
               q1 == (r2 * LimbBase) \div b
               r1 == (r2 * LimbBase) % b
               q0 == (r1 * LimbBase) \div b
               r0 == (r1 * LimbBase) % b
           IN  Fin(RoundToDouble(<<q3, q2, q1, q0>>, r0 # 0))

\* n * x for an integer n and a number x that is not negative.
NumTimes(n, x) ==
    IF x.kind = "nan" THEN NaN
    ELSE IF x.kind = "inf"
      THEN IF n > 0 THEN Infinity ELSE IF n < 0 THEN Negative ELSE NaN
    ELSE IF n < 0 THEN (IF x = Zero THEN Zero ELSE Negative)
    ELSE Fin(RoundToDouble(Carry(<<n * x.m[1], n * x.m[2], n * x.m[3], n * x.m[4]>>),
                           FALSE))

\* n - x for an integer n >= 0 and a number x that is not negative.
NumMinus(n, x) ==
    IF x.kind = "nan" THEN NaN
    ELSE IF x.kind = "inf" THEN Negative
    ELSE IF Less(<<n, 0, 0, 0>>, x.m) THEN Negative
    ELSE Fin(RoundToDouble(Carry(<<n - x.m[1], 0 - x.m[2], 0 - x.m[3], 0 - x.m[4]>>),
                           FALSE))

\* Math.max(0, x)
MathMax0(x) == IF x.kind = "neg" THEN Zero ELSE x

\* Math.min(x, y); a negative result stands for any negative value.
MathMin(x, y) ==
    IF x.kind = "nan" \/ y.kind = "nan" THEN NaN
    ELSE IF x.kind = "neg" \/ y.kind = "neg" THEN Negative
    ELSE IF x.kind = "inf" THEN y
    ELSE IF y.kind = "inf" THEN x
    ELSE IF Less(y.m, x.m) THEN y ELSE x

\* x <= 0, false for NaN
LeqZero(x) == x.kind = "neg" \/ x = Zero

\* The value a canvas dimension takes when x is assigned to it: the integer
\* part, 0 for NaN.
CanvasSize(x) == IF x.kind = "fin" THEN x.m[1] ELSE 0

\* The integer nearest to n * x, for the record of an image: x as a
\* numerator over n.
Nearest(n, x) ==
    IF x.kind # "fin"
      THEN 0
      ELSE LET p == Carry(<<n * x.m[1], n * x.m[2], n * x.m[3], n * x.m[4]>>)
           IN  p[1] + (IF 2 * p[2] >= LimbBase THEN 1 ELSE 0)

(***************************************************************************)
(* Extraction, print and download.                                         *)
(***************************************************************************)
\* The selection's position relative to the canvas, in display pixels:
\* adjustedX = cropArea.x - offsetX, offsetX = canvasRect.left - pageRect.left.
AdjustedX(c, g) == c.x - (g.canvasLeft - g.pageLeft)
AdjustedY(c, g) == c.y - (g.canvasTop - g.pageTop)

\* One axis without the clamp of the extent to the canvas.
UnclampedSpan(origin, scaled, size) ==
    [origin |-> origin, extent |-> scaled]

\* One axis of the source rectangle, lines 171-174, for the origin
\* Math.max(0, adjusted * factor) and the scaled extent: the extent is
\* Math.min(extent * factor, size - origin).
ClampedSpan(origin, scaled, size) ==
    [origin |-> origin, extent |-> MathMin(scaled, NumMinus(size, origin))]

\* One axis for the scale factor of lines 167-168.
ScaledSpan(adjusted, extent, size, factor) ==
    ClampedSpan(MathMax0(NumTimes(adjusted, factor)), NumTimes(extent, factor), size)

\* One axis: the selection starts at adjusted and is extent long in display
\* pixels, the canvas has size pixels and is displayed rectSize long.
SourceSpan(adjusted, extent, size, rectSize) ==
    ScaledSpan(adjusted, extent, size, NumDivide(size, rectSize))

\* sourceX, sourceY, sourceWidth and sourceHeight of the two axes.
SpansRect(h, v) ==
    [sourceX |-> h.origin, sourceY |-> v.origin,
     sourceWidth |-> h.extent, sourceHeight |-> v.extent]

\* The source rectangle without the subtraction of the canvas's offset.
SourceRectIgnoresOffset(c, g) ==
    SpansRect(SourceSpan(c.x, c.width, g.width, g.rectWidth),
              SourceSpan(c.y, c.height, g.height, g.rectHeight))

\* extractCroppedImage, lines 159-174: the rectangle of canvas pixels that
\* is copied.
SourceRect(c, g) ==
    SpansRect(SourceSpan(AdjustedX(c, g), c.width, g.width, g.rectWidth),
              SourceSpan(AdjustedY(c, g), c.height, g.height, g.rectHeight))

\* What a handler is left with when drawImage throws: the exception leaves
\* the handler, which stops there.
Thrown == [thrown |-> "InvalidStateError"]

\* drawImage throws when the canvas it is to read has a width or a height
\* of 0.
DrawImageThrows(g) == g.width = 0 \/ g.height = 0

\* The data URL returned for the source rectangle r of the canvas ref.  The
\* cropped canvas takes integer dimensions (canvasWidth, canvasHeight).  The
\* rectangle drawn is recorded by numerators over the canvas's displayed
\* size (dx, dy; over 1 when that is 0); drawImage draws nothing when one of
\* its arguments is NaN, and then there is no rectangle.  toDataURL gives
\* "data:," for a canvas with a dimension of 0 and a PNG otherwise.
CroppedPixels(ref, g, r) ==
    LET dx == IF g.rectWidth = 0 THEN 1 ELSE g.rectWidth
        dy == IF g.rectHeight = 0 THEN 1 ELSE g.rectHeight
        url == IF CanvasSize(r.sourceWidth) = 0 \/ CanvasSize(r.sourceHeight) = 0
                 THEN "data:,"
                 ELSE "image/png"
    IN  IF \E v \in {r.sourceX, r.sourceY, r.sourceWidth, r.sourceHeight} : v.kind = "nan"
          THEN [url |-> url, from |-> ref,
                canvasWidth |-> CanvasSize(r.sourceWidth),
                canvasHeight |-> CanvasSize(r.sourceHeight)]
          ELSE [url |-> url, from |-> ref,
                sx |-> Nearest(dx, r.sourceX), sy |-> Nearest(dy, r.sourceY),
                sw |-> Nearest(dx, r.sourceWidth), sh |-> Nearest(dy, r.sourceHeight),
                dx |-> dx, dy |-> dy,
                canvasWidth |-> CanvasSize(r.sourceWidth),
                canvasHeight |-> CanvasSize(r.sourceHeight)]

\* extractCroppedImage from line 178 on: drawImage throws on a canvas of
\* size 0, and otherwise the data URL of the copy is returned.
CroppedImage(ref, g, r) ==
    IF DrawImageThrows(g) THEN Thrown ELSE CroppedPixels(ref, g, r)

\* extractCroppedImage without the return of null for an empty rectangle.
ExtractKeepsEmpty(c, ref, g) ==
    IF c = NULL \/ ref = "null"
      THEN NULL
      ELSE CroppedImage(ref, g, SourceRect(c, g))

\* extractCroppedImage from line 176 on, for the source rectangle r.
ExtractRect(ref, g, r) ==
    IF LeqZero(r.sourceWidth) \/ LeqZero(r.sourceHeight)
      THEN NULL
      ELSE CroppedImage(ref, g, r)

\* extractCroppedImage
ExtractCroppedImage(c, ref, g) ==
    IF c = NULL \/ ref = "null"
      THEN NULL
      ELSE ExtractRect(ref, g, SourceRect(c, g))

\* What Index.handlePrint draws: a canvas of the argument's width and height
\* (0 when the argument has none) with a caption, never page pixels.
Placeholder(arg, pageNumber) ==
    [placeholder |-> TRUE,
     width |-> IF "width" \in DOMAIN arg THEN arg.width ELSE 0,
     height |-> IF "height" \in DOMAIN arg THEN arg.height ELSE 0,
     page |-> pageNumber]

\* Index.handlePrint, the onPrint prop of the viewer.
IndexHandlePrint(arg, pageNumber) ==
    IF PagePrintsWholePage(arg)
      THEN /\ emitted' = [call |-> "onPrint", image |-> arg, page |-> pageNumber,
                          sink |-> "window.print"]
           /\ UNCHANGED indexVars
      ELSE /\ previewImage' = Placeholder(arg, pageNumber)
           /\ showPreview' = TRUE
           /\ emitted' = [call |-> "onPrint", image |-> arg, page |-> pageNumber,
                          sink |-> "preview"]

\* handlePrint, lines 198-199: onPrint is called with the image, unless
\* extractCroppedImage threw, which ends the handler.
PrintCropped(imageData) ==
    IF imageData = Thrown
      THEN emitted' = NULL /\ UNCHANGED indexVars
      ELSE IndexHandlePrint(imageData, currentPage)

HandlePrint(g) ==
    /\ IF Significant(cropArea)
         THEN PrintCropped(ExtractCroppedImage(cropArea, canvasRef, g))
         ELSE IndexHandlePrint(NULL, currentPage)
    /\ UNCHANGED <<file, loadState, passwordRequests, viewVars, gateVars, canvasVars, loadingImages>>

\* handleDownloadCropped, lines 210-232: for a data URL an Image is created,
\* its onload is set and it is given the URL.  "data:,", the data URL of a
\* canvas with a dimension of 0, is no image: the Image fails to load and
\* its onload never runs.  The page number the download will be named after
\* is the one of the render the handler belongs to.  When
\* extractCroppedImage threw, the handler ended before any of this.
LoadImage(imageData) ==
    IF imageData # NULL /\ imageData # Thrown /\ imageData.url # "data:,"
      THEN /\ Len(loadingImages) < MaxLoading
           /\ loadingImages' = Append(loadingImages, [src |-> imageData, page |-> currentPage])
      ELSE UNCHANGED loadingImages

\* handleDownloadCropped.  The handler itself makes no download; that is
\* left to the onload of the Image it creates.
HandleDownloadCropped(g) ==
    /\ IF DownloadRejects(cropArea)
         THEN UNCHANGED loadingImages
         ELSE LoadImage(ExtractCroppedImage(cropArea, canvasRef, g))
    /\ emitted' = NULL
    /\ UNCHANGED <<file, loadState, passwordRequests, viewVars, gateVars, canvasVars, indexVars>>

\* img.onload of handleDownloadCropped: the loaded image is drawn on a white
\* canvas of its size and downloaded as a JPEG.
ImgOnLoad ==
    /\ loadingImages # <<>>
    /\ emitted' = [call |-> "download", image |-> Head(loadingImages).src,
                   name |-> <<"cropped-page", Head(loadingImages).page>>]
    /\ loadingImages' = Tail(loadingImages)
    /\ UNCHANGED <<file, loadState, passwordRequests, viewVars, gateVars, canvasVars, indexVars>>

\* handleDownloadFullImage on a canvas of geometry g: the canvas is looked
\* up in the page when the handle is empty; a white canvas of its size is
\* made and the canvas drawn on it, where drawImage throws on a canvas of
\* size 0 and the handler ends with nothing downloaded.
HandleDownloadFullImage(g) ==
    /\ canvasRef' = IF canvasRef = "null" /\ domCanvas THEN "current" ELSE canvasRef
    /\ emitted' = IF canvasRef' = "null" \/ DrawImageThrows(g)
                    THEN NULL
                    ELSE [call |-> "download", image |-> [full |-> canvasRef'],
                          name |-> <<"page-full", currentPage>>]
    /\ UNCHANGED <<file, loadState, passwordRequests, viewVars, gateVars, domCanvas, timerArmed, indexVars, loadingImages>>

\* onClose of <PrintPreview> (the backdrop and the X button), rendered while
\* showPreview holds.
ClosePreview ==
    /\ showPreview
    /\ showPreview' = FALSE
    /\ emitted' = NULL
    /\ UNCHANGED <<file, loadState, passwordRequests, viewVars, gateVars, canvasVars, previewImage,
                   loadingImages>>

\* PrintPreview.handlePrint ("Print Now"): a window is opened on a document
\* that shows the preview's image and prints itself, then onPrint() closes
\* the preview.  window.open returns null when the browser blocks it.
PreviewHandlePrint(opened) ==
    /\ showPreview
    /\ emitted' = IF opened
                    THEN [call |-> "window.open", image |-> previewImage, sink |-> "window.print"]
                    ELSE NULL
    /\ showPreview' = FALSE
    /\ UNCHANGED <<file, loadState, passwordRequests, viewVars, gateVars, canvasVars, previewImage,
                   loadingImages>>

\* PrintPreview.handleDownload ("Download PNG")
PreviewHandleDownload ==
    /\ showPreview
    /\ emitted' = [call |-> "download", image |-> previewImage,
                   name |-> <<"pdf-cropped-selection">>]
    /\ UNCHANGED <<file, loadState, passwordRequests, viewVars, gateVars, canvasVars, indexVars,
                   loadingImages>>

(***************************************************************************)
(* Password prompt.                                                        *)
(***************************************************************************)
Passwords == {"right", "wrong"}

\* onPassword that never sets the error message.
OnPasswordWithoutError(reason) ==
    /\ passwordRequests < MaxRequests
    /\ \/ loadState = "loading" /\ file.locked /\ reason = 1
       \/ loadState = "verifying:wrong" /\ reason = 2
    /\ loadState' = "password"
    /\ passwordRequests' = passwordRequests + 1
    /\ passwordCallbackRef' = [doc |-> "current", n |-> passwordRequests + 1]
    /\ showPasswordModal' = TRUE
    /\ emitted' = NULL
    /\ UNCHANGED <<file, viewVars, passwordError, canvasVars, indexVars, loadingImages>>

\* onPassword(callback, reason), called by <Document>: reason 1 when a
\* protected file needs a password, reason 2 when the password it was given
\* is incorrect.  Every call hands over a new callback, identified here by
\* the request's number and by whether it was made for the file now being
\* loaded (doc "current") or for one replaced since (doc "replaced").
OnPassword(reason) ==
    /\ passwordRequests < MaxRequests
    /\ \/ loadState = "loading" /\ file.locked /\ reason = 1
       \/ loadState = "verifying:wrong" /\ reason = 2
    /\ loadState' = "password"
    /\ passwordRequests' = passwordRequests + 1
    /\ passwordError' = IF reason = 2 THEN ErrIncorrect ELSE passwordError
    /\ passwordCallbackRef' = [doc |-> "current", n |-> passwordRequests + 1]
    /\ showPasswordModal' = TRUE
    /\ emitted' = NULL
    /\ UNCHANGED <<file, viewVars, canvasVars, indexVars, loadingImages>>

\* handlePasswordSubmit(enteredPassword): the callback held is called with
\* the password.  <Document> goes on to verify it when it is waiting for the
\* answer to this very request; a callback of an earlier request or of a
\* file since replaced reaches a loading task that no longer waits.
HandlePasswordSubmit(pw) ==
    /\ IF passwordCallbackRef # NULL
         THEN /\ emitted' = [call |-> "resolver", doc |-> passwordCallbackRef.doc,
                             n |-> passwordCallbackRef.n, password |-> pw]
              /\ showPasswordModal' = FALSE
              /\ loadState' = IF /\ loadState = "password"
                                 /\ passwordCallbackRef.doc = "current"
                                 /\ passwordCallbackRef.n = passwordRequests
                                THEN IF pw = "right" THEN "verifying:right"
                                                     ELSE "verifying:wrong"
                                ELSE loadState
         ELSE /\ emitted' = NULL
              /\ UNCHANGED <<showPasswordModal, loadState>>
    /\ UNCHANGED <<file, passwordRequests, viewVars, passwordError, passwordCallbackRef,
                   canvasVars, indexVars, loadingImages>>

\* handlePasswordCancel that leaves the modal open.
HandlePasswordCancelKeepsPrompt ==
    /\ passwordError' = ""
    /\ passwordCallbackRef' = NULL
    /\ emitted' = NULL
    /\ UNCHANGED <<file, loadState, passwordRequests, viewVars, showPasswordModal,
                   canvasVars, indexVars, loadingImages>>

\* handlePasswordCancel: the modal is closed and the callback is dropped
\* without being called.
HandlePasswordCancel ==
    /\ showPasswordModal' = FALSE
    /\ passwordError' = ""
    /\ passwordCallbackRef' = NULL
    /\ emitted' = NULL
    /\ UNCHANGED <<file, loadState, passwordRequests, viewVars, canvasVars, indexVars, loadingImages>>

(***************************************************************************)
(* The toolbar renders the clear and the cropped-download button only      *)
(* while the selection is significant; the other buttons are always there. *)
(***************************************************************************)
ClickClear == ControlsVisible(cropArea) /\ ClearCrop

ClickDownloadCropped(g) == ControlsVisible(cropArea) /\ HandleDownloadCropped(g)

(***************************************************************************)
(* The viewer.  PageHandlers is every handler and later task that leaves   *)
(* the file, the page and the zoom as they are; Handlers adds those that   *)
(* change them, and the steps of <Document>, <Page> and the lookup timer.  *)
(* Each may run whenever the page is idle.  The files handed over, the     *)
(* pointer positions and the canvas geometries are the inputs.             *)
(***************************************************************************)
\* The geometries the canvas behind the handle ref can have.
CanvasGeoms(ref, geoms) == IF ref = "stale" THEN DetachedGeoms ELSE geoms

PageHandlers(points, geoms) ==
    \/ \E p \in points : HandleMouseDown(p)
    \/ \E p \in points : HandleMouseMove(p)
    \/ HandleMouseUp
    \/ ToggleCropMode
    \/ ClickClear
    \/ \E g \in CanvasGeoms(canvasRef, geoms) : HandlePrint(g)
    \/ \E g \in CanvasGeoms(canvasRef, geoms) : ClickDownloadCropped(g)
    \/ ImgOnLoad
    \/ \E g \in CanvasGeoms(canvasRef, geoms) : HandleDownloadFullImage(g)
    \/ ClosePreview
    \/ \E opened \in BOOLEAN : PreviewHandlePrint(opened)
    \/ PreviewHandleDownload

Handlers(files, points, geoms) ==
    \/ \E f \in files : FileSelected(f)
    \/ OnDocumentLoadSuccess
    \/ PageRendered
    \/ CheckForCanvas
    \/ NextPage
    \/ PrevPage
    \/ ZoomIn
    \/ ZoomOut
    \/ ResetZoom
    \/ PageHandlers(points, geoms)

PasswordHandlers ==
    \/ \E r \in {1, 2} : OnPassword(r)
    \/ \E pw \in Passwords : HandlePasswordSubmit(pw)
    \/ HandlePasswordCancel

Next == Handlers(Files, Points, Geoms) \/ PasswordHandlers

Spec == Init /\ [][Next]_vars

(***************************************************************************)
(* The viewer on unprotected files: <Document> never asks for a password,  *)
(* so the three password handlers have nothing to act on and are left out. *)
(***************************************************************************)
OpenFiles == {f \in Files : ~f.locked}

InitView == Init /\ file \in OpenFiles

NextView == Handlers(OpenFiles, Points, Geoms)

SpecView == InitView /\ [][NextView]_vars

(***************************************************************************)
(* The selection's rectangle and the tests of its size, as functions of    *)
(* the pointer positions: on a displayed page whose canvas the lookup has  *)
(* found (a state that SpecView reaches), selections are drawn with the    *)
(* finer pointer positions and handed to every handler that reads them.    *)
(* The file, the page and the zoom stay as they are.                       *)
(***************************************************************************)
InitSelect ==
    /\ file \in OpenFiles
    /\ loadState = "loaded"
    /\ passwordRequests = 0
    /\ numPages = file.pages
    /\ currentPage = 1
    /\ scale = ScaleInit
    /\ isCropMode = FALSE
    /\ cropArea = NULL
    /\ isDrawing = FALSE
    /\ startPos = [x |-> 0, y |-> 0]
    /\ showPasswordModal = FALSE
    /\ passwordError = ""
    /\ passwordCallbackRef = NULL
    /\ canvasRef = "current"
    /\ domCanvas = TRUE
    /\ timerArmed = FALSE
    /\ showPreview = FALSE
    /\ previewImage = EmptyImage
    /\ loadingImages = <<>>
    /\ emitted = NULL

NextSelect == PageHandlers(FinePoints, Geoms)

SpecSelect == InitSelect /\ [][NextSelect]_vars

(***************************************************************************)
(* The mapping from the selection to canvas pixels, as a function of the   *)
(* selection and the geometry.  It starts in every state of the selection  *)
(* that the pointer handlers, the crop-mode toggle and Clear produce from  *)
(* FinePoints on a displayed page whose canvas the lookup has found (the   *)
(* states SpecSelect reaches with no call made, no download pending and    *)
(* the preview closed); print, the cropped download, the download's later  *)
(* task and the preview's handlers then run under every geometry.          *)
(***************************************************************************)
\* Every drag: the anchor that handleMouseDown stored and the pointer's last
\* position in handleMouseMove, in either order along both axes.  A press
\* without a move is the drag from a point to itself.
MapDrags == FinePoints \X FinePoints

InitMap ==
    /\ file \in OpenFiles
    /\ loadState = "loaded"
    /\ passwordRequests = 0
    /\ numPages = file.pages
    /\ currentPage = 1
    /\ scale = ScaleInit
    /\ isCropMode \in BOOLEAN
    /\ isDrawing \in BOOLEAN
    /\ \/ /\ startPos \in FinePoints \cup (IF isDrawing THEN {} ELSE {[x |-> 0, y |-> 0]})
          /\ cropArea = NULL
       \/ \E d \in MapDrags :
             /\ startPos = d[1]
             /\ cropArea = DragRect(d[1], d[2])
    /\ showPasswordModal = FALSE
    /\ passwordError = ""
    /\ passwordCallbackRef = NULL
    /\ canvasRef = "current"
    /\ domCanvas = TRUE
    /\ timerArmed = FALSE
    /\ showPreview = FALSE
    /\ previewImage = EmptyImage
    /\ loadingImages = <<>>
    /\ emitted = NULL

NextMap ==
    \/ \E g \in MapGeoms : HandlePrint(g)
    \/ \E g \in MapGeoms : ClickDownloadCropped(g)
    \/ ImgOnLoad
    \/ ClosePreview
    \/ \E opened \in BOOLEAN : PreviewHandlePrint(opened)
    \/ PreviewHandleDownload

SpecMap == InitMap /\ [][NextMap]_vars

(***************************************************************************)
(* The password prompt: protected and unprotected files of one page are    *)
(* opened and replaced, <Document> asks for passwords and the prompt's     *)
(* submit and cancel handlers answer, among all other handlers.            *)
(***************************************************************************)
GateFiles == {f \in Files : f.pages = 1}

InitGate == Init /\ file \in GateFiles

NextGate == Handlers(GateFiles, Points, Geoms) \/ PasswordHandlers

SpecGate == InitGate /\ [][NextGate]_vars

(***************************************************************************)
(* Properties.                                                             *)
(***************************************************************************)

\* C1: in every state reachable by load-success events, document
\* replacements, nextPage and prevPage, 1 <= currentPage <= max(pageCount, 1).
C1_PageWithinDocument ==
    currentPage >= 1 /\ currentPage <= Max(numPages, 1)

\* C2: a navigation to an in-range page sets currentPage to the target page
\* and clears the selection in the same step; no step changes currentPage
\* and leaves a selection rectangle behind.
C2_NavigationClearsSelection ==
    [][/\ (NextPage /\ currentPage < numPages)
            => (currentPage' = currentPage + 1 /\ cropArea' = NULL)
       /\ (PrevPage /\ currentPage > 1)
            => (currentPage' = currentPage - 1 /\ cropArea' = NULL)
       /\ (currentPage' # currentPage) => cropArea' = NULL]_vars

\* A page change has just discarded a selection drawn in crop mode: the
\* viewer is on page 2 with crop mode still on, the anchor of the drag still
\* recorded, no rectangle, and the canvas lookup re-armed by the change.
C2_Witness ==
    /\ currentPage = 2
    /\ isCropMode
    /\ ~isDrawing
    /\ startPos \in Points
    /\ cropArea = NULL
    /\ timerArmed
    /\ canvasRef = "stale"

\* C3: nextPage at or beyond the last page (also with no page count yet) and
\* prevPage on page 1 change neither currentPage, zoom, the selection
\* rectangle, the drawing flag nor the selection mode.
C3_OutOfRangeNavigationIsNoOp ==
    [][((NextPage /\ currentPage >= numPages) \/ (PrevPage /\ currentPage <= 1))
         => UNCHANGED <<currentPage, scale, cropArea, isDrawing, isCropMode>>]_vars

\* The viewer is on the only page there is to be on (first and last, or no
\* page count yet), zoomed, with a drag in progress over a rectangle.
C3_Witness ==
    /\ currentPage >= numPages
    /\ currentPage <= 1
    /\ scale # ScaleInit
    /\ isCropMode
    /\ isDrawing
    /\ cropArea # NULL
    /\ cropArea.width > 0

\* C4: when the document is replaced, currentPage is 1 by the time the new
\* document is displayed, whatever page the previous document was on.
C4_PageResetOnReplacement ==
    [][(loadState # "loaded" /\ loadState' = "loaded") => currentPage' = 1]_vars

\* C5: the zoom factor stays within [0.5, 3.0]; zoomIn at 3.0 and zoomOut at
\* 0.5 leave it unchanged; resetZoom sets it to exactly 1.0.
C5_ZoomWithinLimits ==
    [][/\ 50 <= scale /\ scale <= 300
       /\ 50 <= scale' /\ scale' <= 300
       /\ (ZoomIn /\ scale = 300) => scale' = 300
       /\ (ZoomOut /\ scale = 50) => scale' = 50
       /\ (ZoomIn /\ scale < 300) => scale' > scale
       /\ (ZoomOut /\ scale > 50) => scale' < scale
       /\ ResetZoom => scale' = 100]_vars

\* The viewer is at the largest zoom with the canvas lookup done: a further
\* zoomIn there changes no dependency of the lookup.
C5_Witness ==
    scale = 300 /\ ~timerArmed /\ canvasRef = "current"

\* C6: every change of the zoom factor clears the selection rectangle in the
\* same step.
C6_ZoomClearsSelection ==
    [][scale' # scale => cropArea' = NULL]_vars

\* C7: when the crop-mode toggle switches selection mode from enabled to
\* disabled no selection rectangle is left, and the explicit clear leaves no
\* rectangle and selection mode disabled.
C7_ModeOffClearsSelection ==
    [][/\ (isCropMode /\ ~isCropMode') => cropArea' = NULL
       /\ ClearCrop => (cropArea' = NULL /\ ~isCropMode')]_vars

\* C8: a pointer-move at p during a drag anchored at a sets the rectangle to
\* x = min(a.x, p.x), y = min(a.y, p.y), width = |p.x - a.x|,
\* height = |p.y - a.y|; width and height are never negative.
C8_DragRectNormalised ==
    [][/\ \A p \in FinePoints :
            (HandleMouseMove(p) /\ isDrawing) =>
                /\ cropArea'.x = (IF startPos.x < p.x THEN startPos.x ELSE p.x)
                /\ cropArea'.y = (IF startPos.y < p.y THEN startPos.y ELSE p.y)
                /\ cropArea'.width \in {p.x - startPos.x, startPos.x - p.x}
                /\ cropArea'.height \in {p.y - startPos.y, startPos.y - p.y}
                /\ cropArea'.width >= 0
                /\ cropArea'.height >= 0
       /\ cropArea' # NULL => (cropArea'.width >= 0 /\ cropArea'.height >= 0)]_vars

\* The drag from (50,50) to (10,10) is in progress and has given
\* {x: 10, y: 10, width: 40, height: 40}.
C8_Witness ==
    /\ isDrawing
    /\ startPos = [x |-> 50, y |-> 50]
    /\ cropArea = [x |-> 10, y |-> 10, width |-> 40, height |-> 40]

\* C9: print hands over a crop, and cropped-download downloads one, exactly
\* when the rectangle has width > 10 and height > 10; with width <= 10 or
\* height <= 10 print falls back to the whole page and cropped-download does
\* nothing: its handler returns at once, and for a significant rectangle it
\* starts loading the crop for the download.  (In SpecSelect the canvas is
\* present and every rectangle of positive area overlaps it, so a crop is
\* what a significant rectangle gives.)
C9_SignificanceThreshold ==
    [][\A g \in Geoms :
         LET sig == cropArea # NULL /\ cropArea.width > 10 /\ cropArea.height > 10
         IN  /\ HandlePrint(g) => ((emitted'.image # NULL) <=> sig)
             /\ DownloadRejects(cropArea) <=> ~sig
             /\ HandleDownloadCropped(g) =>
                    ((Len(loadingImages') = Len(loadingImages) + 1) <=> sig)]_vars

\* Print has just handed over a crop of an 11 x 11 rectangle.
C9_Witness ==
    /\ cropArea # NULL
    /\ cropArea.width = 11
    /\ cropArea.height = 11
    /\ emitted # NULL
    /\ emitted.call = "onPrint"
    /\ emitted.image # NULL

\* C10: the print action, the cropped-download action, the visibility of the
\* clear/cropped-download controls, the print button's label and the
\* page-level print handler (which shows the preview for a selection and
\* prints the page otherwise) all treat a rectangle as a selection exactly
\* when it has width > 10 and height > 10.
C10_OnePredicateEverywhere ==
    LET sig == cropArea # NULL /\ cropArea.width > 10 /\ cropArea.height > 10
    IN  /\ Significant(cropArea) <=> sig
        /\ ~DownloadRejects(cropArea) <=> sig
        /\ ControlsVisible(cropArea) <=> sig
        /\ PrintLabelSelection(cropArea) <=> sig
        /\ ("call" \in DOMAIN emitted /\ emitted.call = "onPrint")
             => ((emitted.sink = "preview") <=> sig)

\* C11: a pixel rectangle the mapping returns lies within the raster:
\* x >= 0, y >= 0, width > 0, height > 0, x + width <= nativeWidth and
\* y + height <= nativeHeight, for every selection and every geometry of a
\* displayed canvas for which extractCroppedImage does not return null, also
\* when the selection runs past the right or bottom edge; the sums are
\* number additions, rounded as the program's arithmetic is.
C11_PixelRectWithinRaster ==
    [][\A g \in MapGeoms :
         (/\ "call" \in DOMAIN emitted' /\ emitted'.call = "onPrint" /\ emitted'.image # NULL
          /\ HandlePrint(g)) =>
            LET r == SourceRect(cropArea, g)
                Plus(x, y) ==
                    RoundToDouble(Carry(<<x.m[1] + y.m[1], x.m[2] + y.m[2],
                                          x.m[3] + y.m[3], x.m[4] + y.m[4]>>), FALSE)
            IN  /\ r.sourceX.kind = "fin" /\ r.sourceY.kind = "fin"
                /\ r.sourceWidth.kind = "fin" /\ r.sourceWidth # Zero
                /\ r.sourceHeight.kind = "fin" /\ r.sourceHeight # Zero
                /\ ~Less(<<g.width, 0, 0, 0>>, Plus(r.sourceX, r.sourceWidth))
                /\ ~Less(<<g.height, 0, 0, 0>>, Plus(r.sourceY, r.sourceHeight))]_vars

\* The 40 x 40 selection at (10,10) has been printed from the 60 x 60 canvas
\* displayed 30 x 30: scaled it is 80 x 80 at (20,20) and runs 40 pixels past
\* the right and bottom edge; the crop is 40 x 40 and ends on the edges.
C11_Witness ==
    /\ cropArea = [x |-> 10, y |-> 10, width |-> 40, height |-> 40]
    /\ emitted # NULL
    /\ emitted.call = "onPrint"
    /\ emitted.image # NULL
    /\ "dx" \in DOMAIN emitted.image
    /\ emitted.image.dx = 30
    /\ emitted.image.sx = 20 * 30
    /\ emitted.image.sx + emitted.image.sw = 60 * 30
    /\ emitted.image.sy + emitted.image.sh = 60 * 30
    /\ emitted.image.canvasWidth = 40
    /\ emitted.image.canvasHeight = 40

\* C12: the mapping returns null whenever the selection lies entirely
\* outside the raster surface, on any side.
C12_NullWhenOutside ==
    [][\A g \in MapGeoms :
         (/\ cropArea # NULL
          /\ \/ AdjustedX(cropArea, g) + cropArea.width <= 0
             \/ AdjustedY(cropArea, g) + cropArea.height <= 0
             \/ AdjustedX(cropArea, g) >= g.rectWidth
             \/ AdjustedY(cropArea, g) >= g.rectHeight
          /\ "call" \in DOMAIN emitted' /\ emitted'.call = "onPrint"
          /\ HandlePrint(g))
         => emitted'.image = NULL]_vars

\* C13: under identity zoom (displayed size = native size) a selection lying
\* within the surface maps to itself shifted by the surface's offset: same
\* width and height, origin moved by (offsetX, offsetY).
C13_IdentityZoomIsShift ==
    [][\A g \in MapGeoms :
         (/\ cropArea # NULL /\ cropArea.width > 10 /\ cropArea.height > 10
          /\ g.rectWidth = g.width /\ g.rectHeight = g.height
          /\ AdjustedX(cropArea, g) >= 0 /\ AdjustedY(cropArea, g) >= 0
          /\ AdjustedX(cropArea, g) + cropArea.width <= g.rectWidth
          /\ AdjustedY(cropArea, g) + cropArea.height <= g.rectHeight
          /\ HandlePrint(g))
         => /\ emitted'.image # NULL
            /\ emitted'.image.sx = (cropArea.x - (g.canvasLeft - g.pageLeft)) * emitted'.image.dx
            /\ emitted'.image.sy = (cropArea.y - (g.canvasTop - g.pageTop)) * emitted'.image.dy
            /\ emitted'.image.sw = cropArea.width * emitted'.image.dx
            /\ emitted'.image.sh = cropArea.height * emitted'.image.dy]_vars

\* The 40 x 40 selection at (10,10) has been printed from a 60 x 60 canvas at
\* identity zoom that sits at offset (5,3): the crop is 40 x 40 at (5,7).
C13_Witness ==
    /\ cropArea = [x |-> 10, y |-> 10, width |-> 40, height |-> 40]
    /\ emitted # NULL
    /\ emitted.call = "onPrint"
    /\ emitted.image # NULL
    /\ "dx" \in DOMAIN emitted.image
    /\ emitted.image.dx = 60
    /\ emitted.image.sx = 5 * 60
    /\ emitted.image.sy = 7 * 60
    /\ emitted.image.sw = 40 * 60
    /\ emitted.image.sh = 40 * 60

\* C14: the retry protocol.  When the password given in answer to the first
\* request is rejected, the prompt is open again for request number 2 with
\* the failure message set and a new resolver held; when a password is
\* accepted, the document is open with the prompt closed, the failure message
\* cleared and no resolver held.
C14_RetryProtocol ==
    [][/\ (loadState = "verifying:wrong" /\ passwordRequests = 1 /\ loadState' = "password")
          => /\ passwordRequests' = 2
             /\ passwordError' = ErrIncorrect
             /\ showPasswordModal'
             /\ passwordCallbackRef' = [doc |-> "current", n |-> 2]
             /\ passwordCallbackRef' # passwordCallbackRef
       /\ (loadState = "verifying:right" /\ loadState' = "loaded")
          => /\ ~showPasswordModal'
             /\ passwordError' = ""
             /\ passwordCallbackRef' = NULL]_vars

\* A protected file has been opened by the answer to its second request.
C14_Witness ==
    /\ file.locked
    /\ loadState = "loaded"
    /\ passwordRequests = 2
    /\ ~showPasswordModal
    /\ passwordError = ""
    /\ passwordCallbackRef = NULL

\* C15: cancelling a pending password request calls the resolver held, once,
\* and <Document> no longer waits for a password.
C15_CancelReleasesLoader ==
    [][(HandlePasswordCancel /\ loadState = "password" /\ passwordCallbackRef # NULL)
         => /\ emitted' # NULL
            /\ emitted'.call = "resolver"
            /\ emitted'.n = passwordCallbackRef.n
            /\ loadState' # "password"]_vars

\* C16: a submit that arrives while <Document> is verifying the password of
\* an earlier submit calls no resolver and changes no state.
C16_ResolverInvokedAtMostOnce ==
    [][\A pw \in Passwords :
         (HandlePasswordSubmit(pw) /\ loadState \in {"verifying:right", "verifying:wrong"})
         => /\ emitted' = NULL
            /\ UNCHANGED <<loadState, gateVars>>]_vars

\* C17: replacing the file clears the resolver, the prompt and the failure
\* message, and a submit only ever calls the resolver of the latest request
\* of the file being loaded.
C17_ReplacementClearsGate ==
    [][/\ (\E f \in Files : FileSelected(f))
          => /\ passwordCallbackRef' = NULL
             /\ ~showPasswordModal'
             /\ passwordError' = ""
       /\ \A pw \in Passwords :
            (HandlePasswordSubmit(pw) /\ emitted' # NULL)
            => /\ emitted'.doc = "current"
               /\ emitted'.n = passwordRequests]_vars

\* C18: while the prompt is open for a request of <Document>, the failure
\* message is shown exactly when that request was made for a rejected
\* password, that is, when it is not the file's first request.
C18_FailureShownIffRejected ==
    (loadState = "password" /\ showPasswordModal /\ passwordCallbackRef # NULL)
    => (passwordError = ErrIncorrect <=> passwordRequests >= 2)

\* C19: when print is requested with a significant selection and the
\* extraction yields an image, the preview shows that image.
C19_PreviewShowsCrop ==
    (emitted # NULL /\ emitted.call = "onPrint" /\ emitted.image # NULL)
    => /\ showPreview
       /\ previewImage = emitted.image

\* C20: with no selection, an insignificant selection, or a selection whose
\* pixel rectangle has no area after the clamp to the canvas, print asks for
\* the current page as it is (null image, current page number) and changes
\* nothing else, and the cropped download makes no call, loads no image and
\* changes no state; its handler returns at once when there is no
\* significant selection.  The pixel rectangle has no area when the
\* selection starts at or beyond the displayed canvas's right or bottom
\* edge: beyond it, or on it where the scale factor nativeSize/displayedSize
\* is a number the arithmetic represents exactly (where it is not, the
\* product for the edge is not the native size and the rectangle has a
\* width or height above 0, the case of C22).
C20_PrintDegradesToWholePage ==
    [][\A g \in MapGeoms :
         LET c == cropArea
             noSelection ==
                 IF c = NULL THEN TRUE ELSE ~(c.width > 10 /\ c.height > 10)
             AtOrBeyond(start, displayed, native) ==
                 \/ start > displayed
                 \/ start = displayed /\ (native * 1024) % displayed = 0
             noArea ==
                 IF c = NULL
                   THEN TRUE
                   ELSE \/ AtOrBeyond(c.x - (g.canvasLeft - g.pageLeft), g.rectWidth, g.width)
                        \/ AtOrBeyond(c.y - (g.canvasTop - g.pageTop), g.rectHeight, g.height)
         IN  /\ noSelection => DownloadRejects(c)
             /\ (/\ "call" \in DOMAIN emitted' /\ emitted'.call = "onPrint"
                 /\ noSelection \/ noArea
                 /\ HandlePrint(g))
                => /\ emitted' = [call |-> "onPrint", image |-> NULL,
                                  page |-> currentPage, sink |-> "window.print"]
                   /\ UNCHANGED <<file, loadState, viewVars, gateVars, canvasVars, indexVars,
                                  loadingImages>>
             /\ (/\ emitted' = NULL
                 /\ noSelection \/ noArea
                 /\ HandleDownloadCropped(g))
                => UNCHANGED <<file, loadState, viewVars, gateVars, canvasVars, indexVars,
                               loadingImages>>]_vars

\* A significant selection has been printed with the canvas found, and the
\* request was the one for the whole page: the selection has no area on the
\* canvas.
C20_Witness ==
    /\ cropArea # NULL
    /\ cropArea.width > 10
    /\ cropArea.height > 10
    /\ canvasRef = "current"
    /\ emitted = [call |-> "onPrint", image |-> NULL, page |-> currentPage,
                  sink |-> "window.print"]

\* C21: every extraction reads the canvas of the page now displayed: when
\* print or the cropped download extracts a significant selection, the
\* canvas remembered is never one that was rendered for an earlier page,
\* zoom or file, and it is never missing while a page's canvas is displayed.
C21_ExtractionUsesDisplayedSurface ==
    [][\A g \in Geoms \cup DetachedGeoms :
         (/\ HandlePrint(g) \/ HandleDownloadCropped(g)
          /\ cropArea # NULL /\ cropArea.width > 10 /\ cropArea.height > 10)
         => /\ canvasRef # "stale"
            /\ domCanvas => canvasRef = "current"]_vars

\* C22: no image whose width or height rounds to zero in the output canvas
\* (a mapped extent strictly between 0 and 1 pixel) is passed on to print or
\* to the download.
C22_NoImageWhenRoundsToZero ==
    (/\ emitted # NULL
     /\ "image" \in DOMAIN emitted
     /\ emitted.image # NULL
     /\ "canvasWidth" \in DOMAIN emitted.image)
    => /\ emitted.image.canvasWidth >= 1
       /\ emitted.image.canvasHeight >= 1

\* C24: the drag state machine.  A pointer-down in crop mode starts a drag
\* and sets the rectangle to zero size at the pointer's position, whatever
\* the rectangle was; with crop mode off it changes nothing.  A drag starts
\* in no other way.  A pointer-move leaves the rectangle alone unless a drag
\* is in progress, and pointer-up or pointer-leave ends the drag, so the
\* rectangle stays as it is until the next pointer-down in crop mode.
C24_DragStateMachine ==
    [][/\ \A p \in Points :
            /\ (HandleMouseDown(p) /\ isCropMode)
               => /\ isDrawing'
                  /\ startPos' = p
                  /\ cropArea' = [x |-> p.x, y |-> p.y, width |-> 0, height |-> 0]
            /\ (HandleMouseDown(p) /\ ~isCropMode)
               => UNCHANGED <<isDrawing, startPos, cropArea, isCropMode>>
            /\ (HandleMouseMove(p) /\ ~isDrawing)
               => UNCHANGED <<isDrawing, startPos, cropArea, isCropMode>>
       /\ HandleMouseUp => (~isDrawing' /\ cropArea' = cropArea)
       /\ (~isDrawing /\ isDrawing')
          => (isCropMode /\ \E p \in Points : HandleMouseDown(p))]_vars

\* A rectangle has been drawn in crop mode and the drag has ended.
C24_Witness ==
    /\ isCropMode
    /\ ~isDrawing
    /\ cropArea # NULL
    /\ cropArea.width > 0
    /\ cropArea.height > 0

\* C25: while a drag is in progress, crop mode is on and a selection
\* rectangle exists, so a pointer-move cannot bring back a rectangle that a
\* page change or clear has discarded.
C25_DrawingImpliesModeAndRect ==
    isDrawing => (isCropMode /\ cropArea # NULL)

\* C26: whenever the password modal is shown a resolver is held, and a
\* submit that arrives when no resolver is held calls nothing and leaves the
\* modal's visibility, the error message and the page count as they are.
C26_PromptImpliesResolver ==
    /\ [](showPasswordModal => passwordCallbackRef # NULL)
    /\ [][\A pw \in Passwords :
            (HandlePasswordSubmit(pw) /\ passwordCallbackRef = NULL)
            => /\ emitted' = NULL
               /\ UNCHANGED <<showPasswordModal, passwordError, numPages,
                              passwordCallbackRef, loadState>>]_vars

\* The prompt of a protected file has been cancelled: <Document> still waits
\* for a password, the modal is closed and no resolver is held.
C26_Witness ==
    /\ loadState = "password"
    /\ ~showPasswordModal
    /\ passwordCallbackRef = NULL

====
